---- MODULE Spec2Model ----
(***************************************************************************)
(* The host/guest function bridge of lib/api/src/externals/function.rs:    *)
(* the Function handle, its call path through the guest trampoline         *)
(* (Function::call / call_wasm), the downcast to a typed callable          *)
(* (Function::native), the dynamic dispatch wrapper                        *)
(* (VMDynamicFunctionContext::func_wrapper), the generated static host     *)
(* trampolines (impl_host_function!::func_wrapper) and the ownership of    *)
(* the boxed context pointer.                                              *)
(*                                                                         *)
(* Scalars are kept at reduced widths (W32, W64, W128 bits for the 32-,    *)
(* 64- and 128-bit quantities), with the same two's-complement arithmetic. *)
(***************************************************************************)
EXTENDS Integers, Sequences, FiniteSets, TLC

\* ------------------------------------------------------------------ bounds
MaxParams == 2
MaxResults == 1
MaxHandles == 3
W8 == 1
W16 == 2
W32 == 3
W64 == 4
W128 == 5
MaxDepth == 2

\* ------------------------------------------------------------- value model
RECURSIVE Pow2(_)
Pow2(n) == IF n = 0 THEN 1 ELSE 2 * Pow2(n - 1)

Max(a, b) == IF a >= b THEN a ELSE b

SeqsUpTo(S, n) == UNION {[1..k -> S] : k \in 0..n}

\* wasm_common::Type, the four scalar kinds of a signature.
Kinds == {"I32", "I64", "F32", "F64"}

IntKinds == {"I32", "I64"}

Width(ty) == IF ty \in {"I32", "F32"} THEN W32 ELSE W64

\* Two's complement: the bit pattern of a signed integer, and back.
ToBits(v, w) == v % Pow2(w)

FromBits(b, w) == IF b >= Pow2(w - 1) THEN b - Pow2(w) ELSE b

\* A Val: its kind, and its payload (a signed integer for I32/I64, the bit
\* pattern for F32/F64).
MkVal(ty, v) == [ty |-> ty, v |-> v]

\* Val::null(): a reference value, of no kind a signature of scalars names.
NullVal == MkVal("FuncRef", 0)

\* Val::ty
TyOf(val) == val.ty

\* The bit pattern Val::write_value_to stores for a value.
PayloadBits(val) == IF val.ty \in IntKinds THEN ToBits(val.v, Width(val.ty)) ELSE val.v

\* Val::write_value_to(slot): ptr::write of the payload at the slot's address;
\* it overwrites the low Width(ty) bits of the 128-bit slot and no other.
WriteValueTo(val, slot) ==
    (slot \div Pow2(Width(val.ty))) * Pow2(Width(val.ty)) + PayloadBits(val)

\* Val::read_value_from(slot, ty): ptr::read of a payload of kind ty.
ReadValueFrom(slot, ty) ==
    LET b == slot % Pow2(Width(ty))
    IN  MkVal(ty, IF ty \in IntKinds THEN FromBits(b, Width(ty)) ELSE b)

\* Payloads the inputs are drawn from: 1 and the all-ones pattern (-1).
SamplePayloads(ty) == IF ty \in IntKinds THEN {1, -1} ELSE {1, Pow2(Width(ty)) - 1}

ArgVals == UNION {{MkVal(ty, v) : v \in SamplePayloads(ty)} : ty \in Kinds}

\* Slot contents the guest code and the engine's reverse trampoline leave.
SlotSamples == {Pow2(W32) + 1, Pow2(W128) - 1}

\* FunctionType: params() and results().
FunctionType(params, results) == [params |-> params, results |-> results]

Sigs == {FunctionType(p, r) : p \in SeqsUpTo(Kinds, MaxParams),
                              r \in SeqsUpTo(Kinds, MaxResults)}

Traps == {"trap_a", "trap_b"}

\* ---------------------------------------------------------- host scalars
\* wasm_extern_type!, lines 524-535: the types that implement WasmExternType.
HostTypes == {"i8", "u8", "i16", "u16", "i32", "u32", "i64", "u64", "f32", "f64"}

\* $type => $native_type of lines 525-534, as the native type's WASM_TYPE.
NativeOf_ByWidth(t) ==
    CASE t \in {"i8", "u8", "i16", "u16", "i32", "u32", "f32"} -> "I32"
      [] OTHER -> "I64"

NativeOf(t) ==
    CASE t \in {"i8", "u8", "i16", "u16", "i32", "u32"} -> "I32"
      [] t \in {"i64", "u64"} -> "I64"
      [] t = "f32" -> "F32"
      [] OTHER -> "F64"

HostWidth(t) ==
    CASE t \in {"i8", "u8"} -> W8
      [] t \in {"i16", "u16"} -> W16
      [] t \in {"i32", "u32", "f32"} -> W32
      [] OTHER -> W64

HostSigned(t) == t \in {"i8", "i16", "i32", "i64"}

HostFloat(t) == t \in {"f32", "f64"}

\* from_native, line 512: `native as _`; an integer is truncated to the
\* type's width and read with the type's signedness, a float is itself.
FromNative_Unsigned(t, n) == IF HostFloat(t) THEN n ELSE ToBits(n, HostWidth(t))

FromNative(t, n) ==
    IF HostFloat(t) THEN n
    ELSE IF HostSigned(t) THEN FromBits(ToBits(n, HostWidth(t)), HostWidth(t))
    ELSE ToBits(n, HostWidth(t))

\* to_native, line 517: `self as _`; an integer is extended (or, at equal
\* width, reinterpreted) to the signed native type, a float is itself.
ToNative_Pattern(t, v) == IF HostFloat(t) THEN v ELSE ToBits(v, HostWidth(t))

ToNative(t, v) ==
    IF HostFloat(t) THEN v
    ELSE FromBits(ToBits(v, Width(NativeOf(t))), Width(NativeOf(t)))

\* WasmTypeList::wasm_types, lines 774-780: the native kind of each element.
WasmTypes(tys) == [i \in 1..Len(tys) |-> NativeOf(tys[i])]

\* inner::Function::ty, lines 683-685.
InnerTy(Args, Rets) == FunctionType(WasmTypes(Args), WasmTypes(Rets))

\* The tuple element types the static type lists are drawn from: one of each
\* native kind, and a narrower integer.
TupleTypes == {"u8", "i32", "i64", "f32", "f64"}

\* RuntimeError::new(message) and RuntimeError::from_trap(trap).
RuntimeErrorNew(msg) == [kind |-> msg, trap |-> "none"]

RuntimeErrorFromTrap(t) == [kind |-> "trap", trap |-> t]

NoError == [kind |-> "none", trap |-> "none"]

Ok(vals) == [tag |-> "Ok", vals |-> vals, err |-> NoError]

Err(e) == [tag |-> "Err", vals |-> <<>>, err |-> e]

NoRet == [tag |-> "None", vals |-> <<>>, err |-> NoError]

\* ---------------------------------------------------------- function model
\* FunctionDefinition::Wasm(WasmFunctionDefinition { trampoline })
WasmDef == [tag |-> "Wasm", trampoline |-> "call_trampoline", has_env |-> FALSE]

\* FunctionDefinition::Host(HostFunctionDefinition { has_env })
HostDef(has_env) == [tag |-> "Host", trampoline |-> "none", has_env |-> has_env]

\* Function { store, definition, owned_by_store, exported: ExportFunction }
MkFunction(definition, owned, address, vmctx, signature, kind) ==
    [definition |-> definition, owned_by_store |-> owned,
     exported |-> [address |-> address, vmctx |-> vmctx,
                   signature |-> signature, kind |-> kind]]

NoFn == MkFunction([tag |-> "None", trampoline |-> "none", has_env |-> FALSE],
                   FALSE, "null", "null", FunctionType(<<>>, <<>>), "Static")

\* The boxed context behind a non-null vmctx: Box<Env> (new_env) or
\* Box<VMDynamicFunctionContext<T>> (new_dynamic, new_dynamic_env), with the
\* wrapper address and the signature the dynamic context records.
MkCtx(state, what, address, ty) ==
    [state |-> state, what |-> what, address |-> address, function_type |-> ty]

NoCtx == MkCtx("none", "none", "null", FunctionType(<<>>, <<>>))

VARIABLES
    fn,              \* the Function under consideration (NoFn before construction)
    ctx,             \* the heap allocation its vmctx points to (NoCtx: none)
    handles,         \* live handles (the Function and its clones)
    releases,        \* times the boxed context was released
    wrapper,         \* the (Args, Rets) a static func_wrapper was generated for
    pc,              \* position of the operation in progress
    params,          \* call: the argument list
    results,         \* call: the result buffer
    values_vec,      \* the call frame (call_wasm's and func_wrapper's values_vec)
    entry_vec,       \* func_wrapper: the frame as it was on entry
    idx,             \* index of the loop in progress
    ret,             \* what the operation returned
    events,          \* what the operation has done so far, in order
    trampolineCalls, \* times the guest trampoline was entered during the operation
    request,         \* native: the (Args, Rets) asked for
    native_args,     \* static func_wrapper: the native parameters it was entered with
    args,            \* func_wrapper: the arguments handed to the closure
    closureCalls,    \* func_wrapper: times the closure was invoked
    closureOut,      \* func_wrapper: what the closure did
    caught,          \* func_wrapper: the value of catch_unwind
    ending,          \* func_wrapper: how the wrapper ended
    raiseCalls,      \* func_wrapper: calls of raise_user_trap
    resumeCalls,     \* func_wrapper: calls of resume_panic
    borrow,          \* the borrow flag of the RefCell<Env> of a dynamic context
    env_val,         \* the contents of that environment
    active,          \* the invocations of the closure in progress, outermost first
    conv,            \* a conversion of the inner module in progress
    built,           \* the constructor that built fn, and what it was given
    exposed          \* what checked_anyfunc or to_export returned

objVars == <<fn, ctx, handles, releases, wrapper>>

callVars == <<params, results, trampolineCalls>>

frameVars == <<values_vec, entry_vec, idx>>

wrapVars == <<native_args, args, closureCalls, closureOut, caught, ending, raiseCalls, resumeCalls>>

envVars == <<borrow, env_val, active>>

vars == <<fn, ctx, handles, releases, wrapper, pc, params, results, values_vec, entry_vec,
          idx, ret, events, trampolineCalls, request, native_args, args, closureCalls,
          closureOut, caught, ending, raiseCalls, resumeCalls, borrow, env_val, active,
          conv, built, exposed>>

Ev(name, i) == [ev |-> name, i |-> i]

\* Function::ty
Ty(f) == f.exported.signature

\* Function::param_arity / result_arity
ParamArity(f) == Len(Ty(f).params)

ResultArity(f) == Len(Ty(f).results)

\* call_wasm, line 220: the argument count is not the signature's.
ParamCountMismatch_OnlyLonger(sig, ps) == Len(ps) > Len(sig.params)

ParamCountMismatch(sig, ps) == Len(sig.params) /= Len(ps)

\* call_wasm, line 227: the result buffer's length is not the signature's.
ResultCountMismatch(sig, rs) == Len(sig.results) /= Len(rs)

\* call_wasm, line 235: the length of the frame.
FrameLen_Sum(np, nr) == np + nr

FrameLen(np, nr) == Max(np, nr)

\* call_wasm, line 240: the argument's kind is not the parameter's.
ArgKindMismatch_Width(arg, ty) == Width(TyOf(arg)) /= Width(ty)

ArgKindMismatch(arg, ty) == TyOf(arg) /= ty

\* call_wasm, line 261: what the call returns when the trampoline reports a trap.
TrapResult_Generic(t) == Err(RuntimeErrorNew("trap"))

TrapResult(t) == Err(RuntimeErrorFromTrap(t))

\* What a constructor was asked for: its name and the signature it was given
\* (new_dynamic, new_dynamic_env, from_export) or derived (new, new_env).
Built(path, signature) == [path |-> path, signature |-> signature]

NotBuilt == Built("none", FunctionType(<<>>, <<>>))

\* The Self { .. } of from_export, lines 311-316: the export as it came, the
\* definition holding the trampoline, not owned by the store.
FromExportSelf(wasmer_export) ==
    [definition |-> WasmDef, owned_by_store |-> FALSE, exported |-> wasmer_export]

\* Function::from_export: wraps a guest export; the trampoline is resolved here.
FromExport ==
    /\ pc = "nofn"
    /\ \E sig \in Sigs :
         /\ fn' = FromExportSelf([address |-> "guest_code", vmctx |-> "instance",
                                  signature |-> sig, kind |-> "Static"])
         /\ built' = Built("from_export", sig)
    /\ handles' = 1
    /\ pc' = "idle"
    /\ UNCHANGED <<ctx, releases, wrapper, callVars, frameVars, wrapVars, ret, events, request, envVars, conv, exposed>>

\* Function::call, lines 295-300: the match on the definition; the arm of a
\* guest definition is call_wasm, any other is unimplemented!().
CallDispatch_HostToo(definition) == "call_wasm"

CallDispatch(definition) == IF definition.tag = "Wasm" THEN "call_wasm" ELSE "unimplemented"

\* Function::call, line 293: vec![Val::null(); self.result_arity()].
ResultBuffer_ByParams(f) == [j \in 1..ParamArity(f) |-> NullVal]

ResultBuffer(f) == [j \in 1..ResultArity(f) |-> NullVal]

\* Function::call, up to the match on the definition: the result buffer holds
\* result_arity nulls; a guest definition goes on to call_wasm, a host one is
\* unimplemented!().
Call ==
    /\ pc = "idle"
    /\ \E ps \in SeqsUpTo(ArgVals, MaxParams) : params' = ps
    /\ results' = ResultBuffer(fn)
    /\ pc' = CallDispatch(fn.definition)
    /\ ret' = NoRet
    /\ events' = <<>>
    /\ trampolineCalls' = 0
    /\ idx' = 0
    /\ values_vec' = <<>>
    /\ UNCHANGED <<objVars, entry_vec, wrapVars, request, envVars, conv, built, exposed>>

\* call_wasm, lines 219-235: the two length checks, then the frame of
\* max(params.len(), results.len()) zeroed slots.
CallWasmCheck ==
    /\ pc = "call_wasm"
    /\ IF ParamCountMismatch(Ty(fn), params)
       THEN /\ ret' = Err(RuntimeErrorNew("params_mismatch"))
            /\ pc' = "returned"
            /\ events' = Append(events, Ev("check_failed", 0))
            /\ UNCHANGED <<values_vec, idx>>
       ELSE IF ResultCountMismatch(Ty(fn), results)
       THEN /\ ret' = Err(RuntimeErrorNew("results_mismatch"))
            /\ pc' = "returned"
            /\ events' = Append(events, Ev("check_failed", 0))
            /\ UNCHANGED <<values_vec, idx>>
       ELSE /\ values_vec' = [i \in 1..FrameLen(Len(params), Len(results)) |-> 0]
            /\ idx' = 1
            /\ pc' = "store_args"
            /\ events' = events \o <<Ev("check_param_count", 0), Ev("check_result_count", 0),
                                     Ev("alloc", 0)>>
            /\ UNCHANGED ret
    /\ UNCHANGED <<objVars, callVars, entry_vec, wrapVars, request, envVars, conv, built, exposed>>

\* Line 239: the loop over the arguments has taken them all.
ArgsDone_OffByOne(i, ps) == i >= Len(ps)

ArgsDone(i, ps) == i > Len(ps)

\* One turn of the loop of lines 239-250 over params zipped with the slots and
\* the signature's parameter kinds: the kind is compared, then the slot is
\* written.
StoreArg ==
    /\ pc = "store_args"
    /\ ~ArgsDone(idx, params)
    /\ IF ArgKindMismatch(params[idx], Ty(fn).params[idx])
       THEN /\ ret' = Err(RuntimeErrorNew("params_mismatch"))
            /\ pc' = "returned"
            /\ events' = Append(events, Ev("check_failed", idx))
            /\ UNCHANGED <<values_vec, idx>>
       ELSE /\ values_vec' = [values_vec EXCEPT ![idx] = WriteValueTo(params[idx], @)]
            /\ idx' = idx + 1
            /\ events' = events \o <<Ev("check_kind", idx), Ev("write", idx)>>
            /\ UNCHANGED <<ret, pc>>
    /\ UNCHANGED <<objVars, callVars, entry_vec, wrapVars, request, envVars, conv, built, exposed>>

\* wasmer_call_trampoline, lines 253-262: the guest code runs on the frame and
\* either traps or returns, having left anything in the slots.
CallTrampoline ==
    /\ pc = "store_args"
    /\ ArgsDone(idx, params)
    /\ trampolineCalls' = trampolineCalls + 1
    /\ \/ \E t \in Traps :
            /\ ret' = TrapResult(t)
            /\ pc' = "returned"
            /\ events' = Append(events, Ev(t, 0))
            /\ UNCHANGED <<values_vec, idx>>
       \/ \E frame \in [1..Len(values_vec) -> SlotSamples] :
            /\ values_vec' = frame
            /\ pc' = "load_results"
            /\ idx' = 1
            /\ events' = Append(events, Ev("trampoline", 0))
            /\ UNCHANGED ret
    /\ UNCHANGED <<objVars, params, results, entry_vec, wrapVars, request, envVars, conv, built, exposed>>

\* One turn of the loop of lines 265-270.
LoadResult ==
    /\ pc = "load_results"
    /\ idx <= Len(Ty(fn).results)
    /\ results' = [results EXCEPT ![idx] = ReadValueFrom(values_vec[idx], Ty(fn).results[idx])]
    /\ idx' = idx + 1
    /\ events' = Append(events, Ev("read", idx))
    /\ UNCHANGED <<objVars, pc, params, values_vec, ret, trampolineCalls, entry_vec, wrapVars, request, envVars, conv, built, exposed>>

\* call_wasm returns Ok(()) and call returns Ok(results.into_boxed_slice()).
CallOk ==
    /\ pc = "load_results"
    /\ idx > Len(Ty(fn).results)
    /\ ret' = Ok(results)
    /\ pc' = "returned"
    /\ UNCHANGED <<objVars, callVars, frameVars, events, wrapVars, request, envVars, conv, built, exposed>>

Some == [tag |-> "Some", vals |-> <<>>, err |-> NoError]

None == [tag |-> "NoneOpt", vals |-> <<>>, err |-> NoError]

\* Function::native, lines 337 and 341: the comparison of a kind slice of the
\* signature with a static list's wasm_types().
SameKinds_AsBag(a, b) ==
    /\ Len(a) = Len(b)
    /\ \A k \in Kinds : Cardinality({i \in 1..Len(a) : a[i] = k})
                            = Cardinality({i \in 1..Len(b) : b[i] = k})

SameKinds(a, b) == a = b

\* Function::native::<Args, Rets>: Some(NativeFunc) when both lists match.
NativeResult(f, Args, Rets) ==
    IF ~SameKinds(f.exported.signature.params, WasmTypes(Args)) THEN None
    ELSE IF ~SameKinds(f.exported.signature.results, WasmTypes(Rets)) THEN None
    ELSE Some

Native ==
    /\ pc = "idle"
    /\ \E A \in SeqsUpTo(TupleTypes, MaxParams), R \in SeqsUpTo(TupleTypes, MaxResults) :
         /\ request' = [Args |-> A, Rets |-> R]
         /\ ret' = NativeResult(fn, A, R)
    /\ pc' = "native_returned"
    /\ UNCHANGED <<objVars, callVars, frameVars, wrapVars, events, envVars, conv, built, exposed>>

NoRequest == [Args |-> <<>>, Rets |-> <<>>]

NoExport == [tag |-> "none"]

\* Function::checked_anyfunc, lines 319-329: the entry address, the index the
\* engine registered the signature under (one per signature), the vmctx.
AnyfuncOf(f) ==
    [tag |-> "anyfunc", func_ptr |-> f.exported.address,
     type_index |-> f.exported.signature, vmctx |-> f.exported.vmctx]

CheckedAnyfunc ==
    /\ pc = "idle"
    /\ exposed' = AnyfuncOf(fn)
    /\ pc' = "exposed"
    /\ UNCHANGED <<objVars, callVars, frameVars, wrapVars, ret, events, request, envVars, conv, built>>

\* Exportable::to_export, lines 357-359: a copy of the ExportFunction.
ExportOf(f) == [tag |-> "export", function |-> f.exported]

ToExport ==
    /\ pc = "idle"
    /\ exposed' = ExportOf(fn)
    /\ pc' = "exposed"
    /\ UNCHANGED <<objVars, callVars, frameVars, wrapVars, ret, events, request, envVars, conv, built>>

\* ------------------------------------------------------ host construction
\* The Self { .. } of new, lines 67-81: the address of the generated wrapper,
\* a null vmctx, owned by the store.
NewSelf(signature) ==
    MkFunction(HostDef(FALSE), TRUE, "func_wrapper_static", "null", signature, "Static")

\* Function::new: a static host function without environment.
New ==
    /\ pc = "nofn"
    /\ \E A \in SeqsUpTo(TupleTypes, MaxParams), R \in SeqsUpTo(TupleTypes, MaxResults) :
         /\ fn' = NewSelf(InnerTy(A, R))
         /\ wrapper' = [Args |-> A, Rets |-> R]
         /\ built' = Built("new", InnerTy(A, R))
    /\ ctx' = NoCtx
    /\ handles' = 1
    /\ pc' = "idle"
    /\ UNCHANGED <<releases, callVars, frameVars, wrapVars, ret, events, request, envVars, conv, exposed>>

\* The Self { .. } of new_env, lines 99-120: the box's address is the vmctx.
NewEnvSelf_NoEnv(signature) ==
    MkFunction(HostDef(FALSE), TRUE, "func_wrapper_static", "box", signature, "Static")

NewEnvSelf(signature) ==
    MkFunction(HostDef(TRUE), TRUE, "func_wrapper_static", "box", signature, "Static")

\* Function::new_env: a static host function; the environment is boxed and the
\* box's address is the vmctx.
NewEnv ==
    /\ pc = "nofn"
    /\ \E A \in SeqsUpTo(TupleTypes, MaxParams), R \in SeqsUpTo(TupleTypes, MaxResults) :
         /\ fn' = NewEnvSelf(InnerTy(A, R))
         /\ wrapper' = [Args |-> A, Rets |-> R]
         /\ built' = Built("new_env", InnerTy(A, R))
    /\ ctx' = MkCtx("live", "env", "null", FunctionType(<<>>, <<>>))
    /\ handles' = 1
    /\ pc' = "idle"
    /\ UNCHANGED <<releases, callVars, frameVars, wrapVars, ret, events, request, envVars, conv, exposed>>

\* VMDynamicFunctionContext::from_context, lines 426-431: the context records
\* address_ptr(), the address of func_wrapper.
FromContext_NoAddress(what, ty) == MkCtx("live", what, "null", ty)

FromContext(what, ty) == MkCtx("live", what, "func_wrapper", ty)

\* The Self { .. } of new_dynamic, lines 143-156: a null entry address, the
\* boxed context as vmctx.
NewDynamicSelf(ty) == MkFunction(HostDef(FALSE), TRUE, "null", "box", ty, "Dynamic")

\* Function::new_dynamic: the boxed dynamic context is the vmctx, the entry
\* address is null until the engine links the function.
NewDynamic ==
    /\ pc = "nofn"
    /\ \E ty \in Sigs :
         /\ ctx' = FromContext("dynamic", ty)
         /\ fn' = NewDynamicSelf(ty)
         /\ built' = Built("new_dynamic", ty)
    /\ handles' = 1
    /\ pc' = "idle"
    /\ UNCHANGED <<releases, wrapper, callVars, frameVars, wrapVars, ret, events, request, envVars, conv, exposed>>

\* The Self { .. } of new_dynamic_env, lines 181-194.
NewDynamicEnvSelf(ty) == MkFunction(HostDef(TRUE), TRUE, "null", "box", ty, "Dynamic")

\* The values an environment holds.
EnvVals == {0, 1}

\* Function::new_dynamic_env: as new_dynamic, the context holding the
\* environment in a RefCell (RefCell::new(env), line 174: not borrowed).
NewDynamicEnv ==
    /\ pc = "nofn"
    /\ \E ty \in Sigs :
         /\ ctx' = FromContext("dynamic_env", ty)
         /\ fn' = NewDynamicEnvSelf(ty)
         /\ built' = Built("new_dynamic_env", ty)
    /\ \E e \in EnvVals : env_val' = e
    /\ borrow' = 0
    /\ active' = <<>>
    /\ handles' = 1
    /\ pc' = "idle"
    /\ UNCHANGED <<releases, wrapper, callVars, frameVars, wrapVars, ret, events, request, conv, exposed>>

\* ------------------------------------------------------- closure outcomes
NoOutcome == [tag |-> "None", vals |-> <<>>, err |-> NoError, panic |-> "none"]

Panics == {"panic_a", "panic_b"}

\* What a user closure does: it returns values, returns an error, or panics.
\* The same records serve for the value of catch_unwind: Ok(Ok(..)),
\* Ok(Err(..)) and Err(panic).
OutOk(vals) == [tag |-> "Ok", vals |-> vals, err |-> NoError, panic |-> "none"]

OutErr(e) == [tag |-> "Err", vals |-> <<>>, err |-> e, panic |-> "none"]

OutPanic(q) == [tag |-> "Panic", vals |-> <<>>, err |-> NoError, panic |-> q]

\* The errors a closure returns.
UserErrors == {[kind |-> "user", trap |-> t] : t \in Traps}

\* Two payloads of a kind, the one at an odd and the one at an even place.
Alternating(ty, i, s) ==
    IF (i + s) % 2 = 0 THEN 1
    ELSE IF ty \in IntKinds THEN -1 ELSE Pow2(Width(ty)) - 1

\* The value lists a dynamic closure returns: of any kinds and of any length
\* up to one more than the longest result list, neighbours differing.
ReturnLists ==
    {[i \in 1..Len(ks) |-> MkVal(ks[i], Alternating(ks[i], i, s))] :
        ks \in SeqsUpTo(Kinds, MaxResults + 1), s \in 0..1}

\* The frames the engine enters a dynamic func_wrapper with: n slots,
\* neighbours differing.
EntryFrames(n) ==
    {[i \in 1..n |-> IF (i + s) % 2 = 0 THEN Pow2(W32) + 1 ELSE Pow2(W128) - 1] : s \in 0..1}

\* How a func_wrapper ends: it returns (a static one, its result aggregate),
\* or it does not return: raise_user_trap(error) or resume_panic(payload).
EndReturn(vals) == [tag |-> "return", vals |-> vals, err |-> NoError, panic |-> "none"]

EndRaiseUserTrap(e) == [tag |-> "raise_user_trap", vals |-> <<>>, err |-> e, panic |-> "none"]

EndResumePanic(q) == [tag |-> "resume_panic", vals |-> <<>>, err |-> NoError, panic |-> q]

\* ------------------------------------------------ dynamic func_wrapper
\* The engine's reverse trampoline enters func_wrapper with the context and a
\* frame of max(argc, retc) slots.
DynEnter ==
    /\ pc = "idle"
    /\ fn.exported.kind = "Dynamic"
    /\ ctx.state = "live"
    /\ \E frame \in EntryFrames(Max(Len(ctx.function_type.params),
                                     Len(ctx.function_type.results))) :
         /\ values_vec' = frame
         /\ entry_vec' = frame
    /\ pc' = "dyn_entered"
    /\ events' = <<>>
    /\ UNCHANGED <<objVars, callVars, idx, wrapVars, ret, request, envVars, conv, built, exposed>>

\* Lines 447-451: one Val per parameter, read from its slot with its kind.
DecodeArgs_FirstSlot(func_ty, frame) ==
    [i \in 1..Len(func_ty.params) |-> ReadValueFrom(frame[1], func_ty.params[i])]

DecodeArgs(func_ty, frame) ==
    [i \in 1..Len(func_ty.params) |-> ReadValueFrom(frame[i], func_ty.params[i])]

\* Lines 447-452: the arguments are decoded and the closure is called with
\* them (VMDynamicFunction::call); it returns values or an error, or panics.
DynCallClosure ==
    /\ pc = "dyn_entered"
    /\ args' = DecodeArgs(ctx.function_type, values_vec)
    /\ closureCalls' = closureCalls + 1
    /\ \/ \E vals \in ReturnLists : closureOut' = OutOk(vals)
       \/ \E e \in UserErrors : closureOut' = OutErr(e)
       \/ \E q \in Panics : closureOut' = OutPanic(q)
    /\ pc' = "dyn_closure_returned"
    /\ events' = Append(events, Ev("closure", 0))
    /\ UNCHANGED <<objVars, callVars, frameVars, native_args, caught, ending,
                   raiseCalls, resumeCalls, ret, request, envVars, conv, built, exposed>>

\* Line 456: the kinds of the returned values.
ReturnTypes(returns) == [i \in 1..Len(returns) |-> TyOf(returns[i])]

\* Line 457: the returned kinds are not the declared result kinds.
WrongSignature_LengthOnly(returns, func_ty) == Len(returns) /= Len(func_ty.results)

WrongSignature(returns, func_ty) == ReturnTypes(returns) /= func_ty.results

\* Lines 452-463: the block gets to the loop that writes the results when the
\* closure returned values and they are of the declared kinds.
ReachesStore_Unverified(out, func_ty) == out.tag = "Ok"

ReachesStore(out, func_ty) == out.tag = "Ok" /\ ~WrongSignature(out.vals, func_ty)

\* Lines 452-463: a panic unwinds to catch_unwind, an error leaves the block
\* by `?`, returned values of the wrong kinds or number leave it as an error;
\* values of the declared kinds go on to be written.
DynCheck ==
    /\ pc = "dyn_closure_returned"
    /\ CASE closureOut.tag = "Panic" ->
              /\ caught' = OutPanic(closureOut.panic)
              /\ pc' = "dyn_caught"
              /\ UNCHANGED idx
         [] closureOut.tag = "Err" ->
              /\ caught' = OutErr(closureOut.err)
              /\ pc' = "dyn_caught"
              /\ UNCHANGED idx
         [] OTHER ->
              IF ~ReachesStore(closureOut, ctx.function_type)
              THEN /\ caught' = OutErr(RuntimeErrorNew("dynamic_signature"))
                   /\ pc' = "dyn_caught"
                   /\ UNCHANGED idx
              ELSE /\ idx' = 1
                   /\ pc' = "dyn_store_results"
                   /\ UNCHANGED caught
    /\ UNCHANGED <<objVars, callVars, values_vec, entry_vec, native_args, args, closureCalls,
                   closureOut, ending, raiseCalls, resumeCalls, ret, events, request, envVars, conv, built, exposed>>

\* One turn of the loop of lines 464-466.
DynStoreResult ==
    /\ pc = "dyn_store_results"
    /\ idx <= Len(closureOut.vals)
    /\ values_vec' = [values_vec EXCEPT ![idx] = WriteValueTo(closureOut.vals[idx], @)]
    /\ idx' = idx + 1
    /\ events' = Append(events, Ev("write", idx))
    /\ UNCHANGED <<objVars, callVars, entry_vec, wrapVars, pc, ret, request, envVars, conv, built, exposed>>

\* Line 467: the block ends Ok(()).
DynStored ==
    /\ pc = "dyn_store_results"
    /\ idx > Len(closureOut.vals)
    /\ caught' = OutOk(<<>>)
    /\ pc' = "dyn_caught"
    /\ UNCHANGED <<objVars, callVars, frameVars, native_args, args, closureCalls,
                   closureOut, ending, raiseCalls, resumeCalls, ret, events, request, envVars, conv, built, exposed>>

\* Lines 470-474: the match on the value of catch_unwind.
DynMatch_Absorb(result) ==
    CASE result.tag = "Ok" -> EndReturn(<<>>)
      [] result.tag = "Err" -> EndRaiseUserTrap(result.err)
      [] OTHER -> EndReturn(<<>>)

DynMatch(result) ==
    CASE result.tag = "Ok" -> EndReturn(<<>>)
      [] result.tag = "Err" -> EndRaiseUserTrap(result.err)
      [] OTHER -> EndResumePanic(result.panic)

\* func_wrapper ends as the match says.
Ended(e) ==
    /\ ending' = e
    /\ raiseCalls' = raiseCalls + (IF e.tag = "raise_user_trap" THEN 1 ELSE 0)
    /\ resumeCalls' = resumeCalls + (IF e.tag = "resume_panic" THEN 1 ELSE 0)
    /\ pc' = "wrapper_ended"

DynEnd ==
    /\ pc = "dyn_caught"
    /\ Ended(DynMatch(caught))
    /\ UNCHANGED <<objVars, callVars, frameVars, native_args, args, closureCalls,
                   closureOut, caught, ret, events, request, envVars, conv, built, exposed>>

\* ------------------------------- the environment of a dynamic function
\* RefCell::as_ptr, as line 412 uses it: the address of the contents is handed
\* out whatever the borrow flag says, and the flag is left as it is.
AsPtr(flag) == [granted |-> TRUE, flag |-> flag]

\* An invocation of the closure in progress: its arguments, and what it takes
\* the environment behind its `&mut Env` to hold.
Invocation(a, view) == [args |-> a, view |-> view]

\* VMDynamicFunctionWithEnv::call, lines 409-413: the closure is entered with
\* `&mut *self.env.as_ptr()`. The caller is func_wrapper, entered by the
\* engine or, when an invocation is in progress, by guest code that the
\* closure of that invocation has called and that calls the function again.
EnvCall ==
    /\ pc \in {"idle", "env_closure"}
    /\ ctx.state = "live"
    /\ ctx.what = "dynamic_env"
    /\ Len(active) < MaxDepth
    /\ AsPtr(borrow).granted
    /\ borrow' = AsPtr(borrow).flag
    /\ \E frame \in EntryFrames(Max(Len(ctx.function_type.params),
                                     Len(ctx.function_type.results))) :
         active' = Append(active, Invocation(DecodeArgs(ctx.function_type, frame), env_val))
    /\ pc' = "env_closure"
    /\ UNCHANGED <<objVars, callVars, frameVars, wrapVars, ret, events, request, env_val,
                   conv, built, exposed>>

\* The closure of the innermost invocation writes the environment through
\* its reference.
EnvWrite ==
    /\ pc = "env_closure"
    /\ \E v \in EnvVals :
         /\ v /= env_val
         /\ env_val' = v
         /\ active' = [active EXCEPT ![Len(active)].view = v]
    /\ UNCHANGED <<objVars, callVars, frameVars, wrapVars, pc, ret, events, request, borrow,
                   conv, built, exposed>>

\* The closure of the innermost invocation returns. The invocation that
\* called it holds a `&mut Env` the write went behind: it goes on with what
\* it held before or with what the environment holds now.
EnvReturn ==
    /\ pc = "env_closure"
    /\ LET rest == SubSeq(active, 1, Len(active) - 1)
       IN  IF rest = <<>>
           THEN active' = rest
           ELSE \E view \in {rest[Len(rest)].view, env_val} :
                    active' = [rest EXCEPT ![Len(rest)].view = view]
    /\ pc' = IF Len(active) = 1 THEN "idle" ELSE "env_closure"
    /\ UNCHANGED <<objVars, callVars, frameVars, wrapVars, ret, events, request, borrow,
                   env_val, conv, built, exposed>>

\* ------------------------------------------------- static func_wrapper
\* Two values of a host scalar type, the one at an odd and the one at an even
\* place: 1, and the type's all-ones pattern.
HostAlternating(t, i, s) ==
    IF (i + s) % 2 = 0 THEN 1
    ELSE IF HostSigned(t) THEN -1 ELSE Pow2(HostWidth(t)) - 1

\* The native parameters guest code passes for the parameter kinds of Args.
NativeArgLists(Args) ==
    {[i \in 1..Len(Args) |-> Alternating(NativeOf(Args[i]), i, s)] : s \in 0..1}

\* The result tuples a static closure returns for Rets.
ResultTuples(Rets) ==
    {[i \in 1..Len(Rets) |-> HostAlternating(Rets[i], i, s)] : s \in 0..1}

\* Guest code calls the generated func_wrapper (with or without environment)
\* with the vmctx and one native parameter per element of Args.
StaticEnter ==
    /\ pc = "idle"
    /\ fn.definition.tag = "Host"
    /\ fn.exported.kind = "Static"
    /\ \E ns \in NativeArgLists(wrapper.Args) : native_args' = ns
    /\ pc' = "static_entered"
    /\ events' = <<>>
    /\ UNCHANGED <<objVars, callVars, frameVars, args, closureCalls, closureOut, caught,
                   ending, raiseCalls, resumeCalls, ret, request, envVars, conv, built, exposed>>

\* Lines 810 and 852: each native parameter goes through from_native.
ConvertArgs(Args, natives) == [i \in 1..Len(Args) |-> FromNative(Args[i], natives[i])]

\* Lines 809-811 (851-853 with environment): inside catch_unwind the closure
\* is called with the converted parameters and its value goes through
\* into_result; a panic unwinds to catch_unwind.
StaticCallClosure ==
    /\ pc = "static_entered"
    /\ args' = ConvertArgs(wrapper.Args, native_args)
    /\ closureCalls' = closureCalls + 1
    /\ \/ \E tuple \in ResultTuples(wrapper.Rets) : closureOut' = OutOk(tuple)
       \/ \E e \in UserErrors : closureOut' = OutErr(e)
       \/ \E q \in Panics : closureOut' = OutPanic(q)
    /\ caught' = closureOut'
    /\ pc' = "static_caught"
    /\ events' = Append(events, Ev("closure", 0))
    /\ UNCHANGED <<objVars, callVars, frameVars, native_args, ending, raiseCalls,
                   resumeCalls, ret, request, envVars, conv, built, exposed>>

\* WasmTypeList::into_c_struct, lines 762-772: to_native of each element.
IntoCStruct(Rets, tuple) == [i \in 1..Len(Rets) |-> ToNative(Rets[i], tuple[i])]

\* Lines 813-817 (855-859): the match on the value of catch_unwind.
StaticMatch_TrapAsReturn(result, Rets) ==
    CASE result.tag = "Ok" -> EndReturn(IntoCStruct(Rets, result.vals))
      [] result.tag = "Err" -> EndReturn(<<>>)
      [] OTHER -> EndResumePanic(result.panic)

StaticMatch(result, Rets) ==
    CASE result.tag = "Ok" -> EndReturn(IntoCStruct(Rets, result.vals))
      [] result.tag = "Err" -> EndRaiseUserTrap(result.err)
      [] OTHER -> EndResumePanic(result.panic)

StaticEnd ==
    /\ pc = "static_caught"
    /\ Ended(StaticMatch(caught, wrapper.Rets))
    /\ UNCHANGED <<objVars, callVars, frameVars, native_args, args, closureCalls,
                   closureOut, caught, ret, events, request, envVars, conv, built, exposed>>

\* -------------------------------------------- conversions of mod inner
\* The integer types among the host scalar types.
IntHostTypes == {"i8", "u8", "i16", "u16", "i32", "u32", "i64", "u64"}

\* T::MIN and T::MAX of a host scalar type (of a float, its bit patterns).
HostMin(t) == IF HostSigned(t) THEN 0 - Pow2(HostWidth(t) - 1) ELSE 0

HostMax(t) == IF HostSigned(t) THEN Pow2(HostWidth(t) - 1) - 1 ELSE Pow2(HostWidth(t)) - 1

\* Every value of a host scalar type.
HostValues(t) == HostMin(t)..HostMax(t)

\* Every value of a native type: i32, i64, or the bit patterns of f32, f64.
NativeValues(k) ==
    IF k \in IntKinds THEN (0 - Pow2(Width(k) - 1))..(Pow2(Width(k) - 1) - 1)
    ELSE 0..(Pow2(Width(k)) - 1)

\* NativeWasmType::to_binary: the native value in a 128-bit slot, an integer
\* extended with its sign, a float by its bit pattern.
ToBinary(k, n) == IF k \in IntKinds THEN ToBits(n, W128) ELSE n

\* NativeWasmType::from_binary: the native value in the low bits of a slot.
FromBinary(k, b) ==
    IF k \in IntKinds THEN FromBits(b % Pow2(Width(k)), Width(k)) ELSE b % Pow2(Width(k))

\* WasmTypeList::into_array, lines 731-742: to_native then to_binary of each
\* element, in the order of the tuple.
IntoArray_Reversed(tys, tuple) ==
    [i \in 1..Len(tys) |->
        ToBinary(NativeOf(tys[Len(tys) + 1 - i]),
                 ToNative(tys[Len(tys) + 1 - i], tuple[Len(tys) + 1 - i]))]

IntoArray(tys, tuple) ==
    [i \in 1..Len(tys) |-> ToBinary(NativeOf(tys[i]), ToNative(tys[i], tuple[i]))]

\* WasmTypeList::from_array, lines 718-729: from_binary then from_native of
\* each slot, in the order of the array.
FromArray(tys, array) ==
    [i \in 1..Len(tys) |-> FromNative(tys[i], FromBinary(NativeOf(tys[i]), array[i]))]

\* The values the elements of a tuple are drawn from: MIN, MAX and zero.
HostSamples(t) == {HostMin(t), HostMax(t), 0}

\* The tuples of the types tys.
Tuples(tys) ==
    {tp \in [1..Len(tys) -> UNION {HostSamples(tys[i]) : i \in 1..Len(tys)}] :
        \A i \in 1..Len(tys) : tp[i] \in HostSamples(tys[i])}

\* A conversion in progress: what is converted (op), how far it is (stage),
\* the host types (tys, and rets for a signature), the values given (arg), the
\* values after the first conversion (mid) and after the second (out), and
\* the signature derived (sig). A scalar is held as a list of one.
MkConv(op, tys, rets, arg) ==
    [op |-> op, stage |-> 0, tys |-> tys, rets |-> rets, arg |-> arg, mid |-> <<>>,
     out |-> <<>>, sig |-> FunctionType(<<>>, <<>>)]

\* The conversions about to be made: a host scalar to its native type and
\* back, a native value to a host scalar type and back, a tuple to its array
\* and back, the signature of a static function of given Args and Rets.
ConvInputs ==
    UNION {{MkConv("host_scalar", <<t>>, <<>>, <<v>>) : v \in HostValues(t)} : t \in HostTypes}
    \cup
    UNION {{MkConv("native_scalar", <<t>>, <<>>, <<n>>) : n \in NativeValues(NativeOf(t))} :
              t \in HostTypes}
    \cup
    UNION {{MkConv("tuple", tys, <<>>, tp) : tp \in Tuples(tys)} :
              tys \in SeqsUpTo(IntHostTypes, MaxParams)}
    \cup
    {MkConv("types", A, R, <<>>) :
        A \in SeqsUpTo(HostTypes, MaxParams), R \in SeqsUpTo(HostTypes, MaxResults)}

\* Everything but the conversion in progress.
notConv == <<objVars, callVars, frameVars, wrapVars, pc, ret, events, request, envVars,
             built, exposed>>

\* to_native is applied: to the host scalar, or to what from_native gave.
ConvToNative ==
    /\ \/ /\ conv.op = "host_scalar"
          /\ conv.stage = 0
          /\ conv' = [conv EXCEPT !.mid = <<ToNative(conv.tys[1], conv.arg[1])>>, !.stage = 1]
       \/ /\ conv.op = "native_scalar"
          /\ conv.stage = 1
          /\ conv' = [conv EXCEPT !.out = <<ToNative(conv.tys[1], conv.mid[1])>>, !.stage = 2]
    /\ UNCHANGED notConv

\* from_native is applied: to the native value, or to what to_native gave.
ConvFromNative ==
    /\ \/ /\ conv.op = "native_scalar"
          /\ conv.stage = 0
          /\ conv' = [conv EXCEPT !.mid = <<FromNative(conv.tys[1], conv.arg[1])>>, !.stage = 1]
       \/ /\ conv.op = "host_scalar"
          /\ conv.stage = 1
          /\ conv' = [conv EXCEPT !.out = <<FromNative(conv.tys[1], conv.mid[1])>>, !.stage = 2]
    /\ UNCHANGED notConv

\* into_array is applied to the tuple.
ConvIntoArray ==
    /\ conv.op = "tuple"
    /\ conv.stage = 0
    /\ conv' = [conv EXCEPT !.mid = IntoArray(conv.tys, conv.arg), !.stage = 1]
    /\ UNCHANGED notConv

\* from_array is applied to the array into_array gave.
ConvFromArray ==
    /\ conv.op = "tuple"
    /\ conv.stage = 1
    /\ conv' = [conv EXCEPT !.out = FromArray(conv.tys, conv.mid), !.stage = 2]
    /\ UNCHANGED notConv

\* inner::Function::<Args, Rets>::new(f).ty()
ConvTy ==
    /\ conv.op = "types"
    /\ conv.stage = 0
    /\ conv' = [conv EXCEPT !.sig = InnerTy(conv.tys, conv.rets), !.stage = 1]
    /\ UNCHANGED notConv

\* ---------------------------------------------------------- ownership
\* #[derive(Clone)] on Function, line 42: the clone holds the same vmctx.
Clone ==
    /\ pc = "idle"
    /\ handles < MaxHandles
    /\ handles' = handles + 1
    /\ UNCHANGED <<fn, ctx, releases, wrapper, pc, callVars, frameVars, wrapVars, ret,
                   events, request, envVars, conv, built, exposed>>

\* What dropping a handle does to the boxed context: Function (lines 43-49)
\* and ExportFunction have no Drop, and dropping the raw pointer vmctx does
\* nothing to what it points to.
DropGlue(c, left) == c

DropReleases(c, left) == 0

\* A handle goes out of scope.
Drop ==
    /\ pc = "idle"
    /\ handles > 0
    /\ handles' = handles - 1
    /\ ctx' = DropGlue(ctx, handles - 1)
    /\ releases' = releases + DropReleases(ctx, handles - 1)
    /\ pc' = IF handles = 1 THEN "dropped" ELSE "idle"
    /\ UNCHANGED <<fn, wrapper, callVars, frameVars, wrapVars, ret, events, request, envVars, conv, built, exposed>>

\* Everything an operation leaves behind is cleared.
Cleared ==
    /\ params' = <<>>
    /\ results' = <<>>
    /\ values_vec' = <<>>
    /\ entry_vec' = <<>>
    /\ idx' = 0
    /\ ret' = NoRet
    /\ events' = <<>>
    /\ trampolineCalls' = 0
    /\ request' = NoRequest
    /\ native_args' = <<>>
    /\ args' = <<>>
    /\ closureCalls' = 0
    /\ closureOut' = NoOutcome
    /\ caught' = NoOutcome
    /\ ending' = NoOutcome
    /\ raiseCalls' = 0
    /\ resumeCalls' = 0
    /\ exposed' = NoExport

\* The caller takes the result; the function is ready for the next operation.
Done ==
    /\ pc \in {"returned", "native_returned", "wrapper_ended", "exposed"}
    /\ pc' = "idle"
    /\ Cleared
    /\ UNCHANGED <<objVars, envVars, conv, built>>

\* Nothing is built yet and no operation is in progress.
InitRest ==
    /\ fn = NoFn
    /\ ctx = NoCtx
    /\ handles = 0
    /\ releases = 0
    /\ wrapper = NoRequest
    /\ pc = "nofn"
    /\ params = <<>>
    /\ results = <<>>
    /\ values_vec = <<>>
    /\ entry_vec = <<>>
    /\ idx = 0
    /\ ret = NoRet
    /\ events = <<>>
    /\ trampolineCalls = 0
    /\ request = NoRequest
    /\ native_args = <<>>
    /\ args = <<>>
    /\ closureCalls = 0
    /\ closureOut = NoOutcome
    /\ caught = NoOutcome
    /\ ending = NoOutcome
    /\ raiseCalls = 0
    /\ resumeCalls = 0
    /\ borrow = 0
    /\ env_val = 0
    /\ active = <<>>
    /\ built = NotBuilt
    /\ exposed = NoExport

NoConv == MkConv("none", <<>>, <<>>, <<>>)

Init == InitRest /\ conv = NoConv

Next ==
    \/ FromExport
    \/ Call
    \/ CallWasmCheck
    \/ StoreArg
    \/ CallTrampoline
    \/ LoadResult
    \/ CallOk
    \/ Done

Spec == Init /\ [][Next]_vars

NextNative ==
    \/ FromExport
    \/ Native
    \/ Done

SpecNative == Init /\ [][NextNative]_vars

NextWrap ==
    \/ New
    \/ NewEnv
    \/ StaticEnter
    \/ StaticCallClosure
    \/ StaticEnd
    \/ NewDynamic
    \/ NewDynamicEnv
    \/ DynEnter
    \/ DynCallClosure
    \/ DynCheck
    \/ DynStoreResult
    \/ DynStored
    \/ DynEnd
    \/ Done

SpecWrap == Init /\ [][NextWrap]_vars

NextOwn ==
    \/ New
    \/ NewEnv
    \/ NewDynamic
    \/ NewDynamicEnv
    \/ FromExport
    \/ Clone
    \/ Drop
    \/ CheckedAnyfunc
    \/ ToExport
    \/ Done

SpecOwn == Init /\ [][NextOwn]_vars

\* The operations on a host-defined function.
NextHost ==
    \/ New
    \/ NewEnv
    \/ NewDynamic
    \/ NewDynamicEnv
    \/ Call
    \/ CheckedAnyfunc
    \/ ToExport
    \/ Done

SpecHost == Init /\ [][NextHost]_vars

NextEnv ==
    \/ NewDynamicEnv
    \/ EnvCall
    \/ EnvWrite
    \/ EnvReturn

SpecEnv == Init /\ [][NextEnv]_vars

InitConv == InitRest /\ conv \in ConvInputs

NextConv ==
    \/ ConvToNative
    \/ ConvFromNative
    \/ ConvIntoArray
    \/ ConvFromArray
    \/ ConvTy

SpecConv == InitConv /\ [][NextConv]_vars

\* ------------------------------------------------------------------ claims
\* A call on a guest-defined function is in progress or has just returned.
InGuestCall == fn.definition.tag = "Wasm" /\ pc \in {"call_wasm", "store_args", "load_results", "returned"}

EventNames == {events[k].ev : k \in 1..Len(events)}

TypeMismatchErr == Err(RuntimeErrorNew("params_mismatch"))

\* The positions of the argument list whose kind is not the parameter's.
MismatchedPositions ==
    {i \in 1..Len(params) : i <= Len(Ty(fn).params) /\ TyOf(params[i]) /= Ty(fn).params[i]}

\* C1: a call on a guest-defined function with an argument list whose length is
\* not the signature's parameter count never gets past the count check: no
\* slot is written, the trampoline is never entered, and the call returns the
\* type-mismatch Err.
C1_ArgCountMismatchIsErr ==
    (InGuestCall /\ Len(params) /= Len(Ty(fn).params)) =>
        /\ trampolineCalls = 0
        /\ pc \in {"call_wasm", "returned"}
        /\ EventNames \subseteq {"check_failed"}
        /\ pc = "returned" => ret = TypeMismatchErr

C1_Witness ==
    /\ InGuestCall
    /\ pc = "returned"
    /\ Len(params) = 0
    /\ Ty(fn).params = <<"I32">>
    /\ ret = TypeMismatchErr
    /\ trampolineCalls = 0

\* C2: a call on a guest-defined function with the right number of arguments,
\* one of which (at any position) is of another kind than its parameter,
\* stops at the first such position: the trampoline is never entered and the
\* call returns the type-mismatch Err.
C2_ArgKindMismatchIsErr ==
    (InGuestCall /\ Len(params) = Len(Ty(fn).params) /\ MismatchedPositions /= {}) =>
        /\ trampolineCalls = 0
        /\ pc \in {"call_wasm", "store_args", "returned"}
        /\ pc = "store_args" => \A i \in MismatchedPositions : idx <= i
        /\ EventNames \subseteq {"check_param_count", "check_result_count", "alloc",
                                  "check_kind", "write", "check_failed"}
        /\ pc = "returned" => ret = TypeMismatchErr

\* The mismatch is at the last position only, the first argument is written.
C2_Witness ==
    /\ InGuestCall
    /\ pc = "returned"
    /\ Len(params) = 2
    /\ Len(Ty(fn).params) = 2
    /\ MismatchedPositions = {2}
    /\ ret = TypeMismatchErr
    /\ trampolineCalls = 0

\* C3: in a call on a guest-defined function with matching arguments, the frame
\* has exactly max(argc, retc) slots, all zero but for the arguments, slot i
\* holding argument i, when the trampoline is entered; and a call whose
\* trampoline returned normally returns Ok with exactly retc values, value j
\* being slot j read with the signature's j-th result kind.
C3_FrameAndResults ==
    /\ (InGuestCall /\ pc = "store_args" /\ idx > Len(params)) =>
          /\ Len(values_vec) = Max(Len(Ty(fn).params), Len(Ty(fn).results))
          /\ \A i \in 1..Len(values_vec) :
                IF i <= Len(params)
                THEN /\ values_vec[i] = PayloadBits(params[i])
                     /\ ReadValueFrom(values_vec[i], Ty(fn).params[i]) = params[i]
                ELSE values_vec[i] = 0
    /\ (InGuestCall /\ pc = "returned" /\ "trampoline" \in EventNames) =>
          /\ ret.tag = "Ok"
          /\ trampolineCalls = 1
          /\ Len(ret.vals) = Len(Ty(fn).results)
          /\ \A j \in 1..Len(ret.vals) :
                /\ ret.vals[j].ty = Ty(fn).results[j]
                /\ PayloadBits(ret.vals[j]) = values_vec[j] % Pow2(Width(Ty(fn).results[j]))

\* Fewer arguments than results: the frame is sized by the results.
C3_Witness ==
    /\ InGuestCall
    /\ pc = "returned"
    /\ ret.tag = "Ok"
    /\ Len(params) = 0
    /\ Len(ret.vals) = 1
    /\ Len(values_vec) = 1
    /\ ret.vals[1] = MkVal("I32", -1)

\* The arguments are in their slots when the trampoline is entered.
C3_WitnessArgs ==
    /\ InGuestCall
    /\ pc = "store_args"
    /\ idx > Len(params)
    /\ params = <<MkVal("I32", -1), MkVal("I64", 1)>>
    /\ values_vec = <<Pow2(W32) - 1, 1>>

\* C4: when the trampoline reports a trap, the call returns Err with the
\* RuntimeError made from that trap; no result slot is read, the result buffer
\* is as allocated, and the call does not return Ok.
C4_TrapIsErr ==
    \A k \in 1..Len(events) :
        (InGuestCall /\ events[k].ev \in Traps) =>
            /\ pc = "returned"
            /\ ret = Err(RuntimeErrorFromTrap(events[k].ev))
            /\ ret.tag /= "Ok"
            /\ "read" \notin EventNames
            /\ \A j \in 1..Len(results) : results[j] = NullVal

C4_Witness ==
    /\ InGuestCall
    /\ pc = "returned"
    /\ Len(Ty(fn).results) = 1
    /\ Len(params) = 2
    /\ trampolineCalls = 1
    /\ ret = Err(RuntimeErrorFromTrap("trap_b"))

\* C5: native::<Args, Rets>() is Some exactly when the signature's parameter
\* kinds are, position by position and in number, the native kinds of Args and
\* its result kinds those of Rets.
C5_NativeIffSameKinds ==
    pc = "native_returned" =>
        (ret.tag = "Some" <=>
            /\ Len(Ty(fn).params) = Len(request.Args)
            /\ \A i \in 1..Len(request.Args) : Ty(fn).params[i] = NativeOf(request.Args[i])
            /\ Len(Ty(fn).results) = Len(request.Rets)
            /\ \A i \in 1..Len(request.Rets) : Ty(fn).results[i] = NativeOf(request.Rets[i]))

\* A permutation of the parameter kinds is turned down.
C5_Witness ==
    /\ pc = "native_returned"
    /\ Ty(fn) = FunctionType(<<"I32", "I64">>, <<"F32">>)
    /\ request = [Args |-> <<"i64", "i32">>, Rets |-> <<"f32">>]
    /\ ret = None

C5_WitnessSome ==
    /\ pc = "native_returned"
    /\ Ty(fn) = FunctionType(<<"I32", "I64">>, <<"F32">>)
    /\ request = [Args |-> <<"u8", "i64">>, Rets |-> <<"f32">>]
    /\ ret = Some

\* A dynamic func_wrapper has called its closure.
InDynWrapper ==
    /\ fn.exported.kind = "Dynamic"
    /\ pc \in {"dyn_closure_returned", "dyn_store_results", "dyn_caught", "wrapper_ended"}

\* A static func_wrapper has called its closure.
InStaticWrapper ==
    /\ fn.definition.tag = "Host"
    /\ fn.exported.kind = "Static"
    /\ pc \in {"static_caught", "wrapper_ended"}

\* The closure returned values that are not, in number or at some position in
\* kind, the declared results.
MisshapedReturn ==
    /\ closureOut.tag = "Ok"
    /\ \/ Len(closureOut.vals) /= Len(ctx.function_type.results)
       \/ \E i \in 1..Len(closureOut.vals) :
             closureOut.vals[i].ty /= ctx.function_type.results[i]

\* C6: in the dynamic func_wrapper, when the closure returns Ok with values
\* whose kinds are not the declared result kinds (another kind at a position,
\* or another number of values), no slot is written and the wrapper ends by
\* raise_user_trap, once, with the wrong-signature error; it neither returns
\* nor resumes a panic.
C6_MisshapedReturnTraps ==
    (InDynWrapper /\ MisshapedReturn) =>
        /\ pc /= "dyn_store_results"
        /\ values_vec = entry_vec
        /\ pc = "dyn_caught" => caught = OutErr(RuntimeErrorNew("dynamic_signature"))
        /\ pc = "wrapper_ended" =>
              /\ ending = EndRaiseUserTrap(RuntimeErrorNew("dynamic_signature"))
              /\ raiseCalls = 1
              /\ resumeCalls = 0

\* Two values returned against a declared arity of one.
C6_Witness ==
    /\ InDynWrapper
    /\ pc = "wrapper_ended"
    /\ ctx.function_type.results = <<"I32">>
    /\ ReturnTypes(closureOut.vals) = <<"I32", "I32">>
    /\ ending.tag = "raise_user_trap"

\* A value of kind F64 returned for a declared I32.
C6_WitnessKind ==
    /\ InDynWrapper
    /\ pc = "wrapper_ended"
    /\ ctx.function_type.results = <<"I32">>
    /\ ReturnTypes(closureOut.vals) = <<"F64">>
    /\ ending.tag = "raise_user_trap"

\* C7: the dynamic func_wrapper calls the closure exactly once, with one value
\* per declared parameter, value i being slot i of the frame read with the
\* i-th parameter kind; and when the closure returns Ok with values of the
\* declared result kinds, the wrapper returns, slot j holding returned value j.
C7_DynamicDispatch ==
    /\ (fn.exported.kind = "Dynamic" /\ pc = "dyn_entered") => closureCalls = 0
    /\ InDynWrapper =>
          /\ closureCalls = 1
          /\ Len(args) = Len(ctx.function_type.params)
          /\ \A i \in 1..Len(args) :
                /\ args[i].ty = ctx.function_type.params[i]
                /\ PayloadBits(args[i]) = entry_vec[i] % Pow2(Width(args[i].ty))
    /\ (InDynWrapper /\ pc = "wrapper_ended" /\ closureOut.tag = "Ok" /\ ~MisshapedReturn) =>
          /\ ending = EndReturn(<<>>)
          /\ raiseCalls = 0
          /\ resumeCalls = 0
          /\ \A j \in 1..Len(closureOut.vals) :
                /\ values_vec[j] % Pow2(Width(closureOut.vals[j].ty)) = PayloadBits(closureOut.vals[j])
                /\ ReadValueFrom(values_vec[j], ctx.function_type.results[j]) = closureOut.vals[j]

\* Declared (I32, I32) -> (I32): two arguments decoded, one result stored.
C7_Witness ==
    /\ InDynWrapper
    /\ pc = "wrapper_ended"
    /\ ctx.function_type = FunctionType(<<"I32", "I32">>, <<"I32">>)
    /\ args = <<MkVal("I32", -1), MkVal("I32", 1)>>
    /\ closureOut = OutOk(<<MkVal("I32", 1)>>)
    /\ ending.tag = "return"
    /\ values_vec[1] % Pow2(W32) = 1
    /\ values_vec /= entry_vec

\* C8: a static func_wrapper (with or without environment) calls the closure
\* exactly once and ends in exactly one way, the one the closure decides: it
\* returns the result aggregate holding the closure's result (Ok), or calls
\* raise_user_trap with the closure's error (Err), or calls resume_panic with
\* the closure's panic payload (panic).
C8_StaticThreeOutcomes ==
    /\ (fn.exported.kind = "Static" /\ pc = "static_entered") => closureCalls = 0
    /\ InStaticWrapper => closureCalls = 1
    /\ (InStaticWrapper /\ pc = "wrapper_ended") =>
          /\ raiseCalls + resumeCalls + (IF ending.tag = "return" THEN 1 ELSE 0) = 1
          /\ closureOut.tag = "Ok" =>
                /\ ending.tag = "return"
                /\ Len(ending.vals) = Len(wrapper.Rets)
                /\ \A i \in 1..Len(wrapper.Rets) :
                      FromNative(wrapper.Rets[i], ending.vals[i]) = closureOut.vals[i]
          /\ closureOut.tag = "Err" =>
                /\ ending = EndRaiseUserTrap(closureOut.err)
                /\ raiseCalls = 1
          /\ closureOut.tag = "Panic" =>
                /\ ending = EndResumePanic(closureOut.panic)
                /\ resumeCalls = 1

\* With environment, the closure returned an error.
C8_Witness ==
    /\ InStaticWrapper
    /\ pc = "wrapper_ended"
    /\ fn.definition.has_env
    /\ wrapper = [Args |-> <<"u8", "i64">>, Rets |-> <<"i32">>]
    /\ closureOut = OutErr([kind |-> "user", trap |-> "trap_a"])
    /\ raiseCalls = 1

\* Without environment, the closure returned a value.
C8_WitnessOk ==
    /\ InStaticWrapper
    /\ pc = "wrapper_ended"
    /\ ~fn.definition.has_env
    /\ wrapper = [Args |-> <<"i32">>, Rets |-> <<"i64">>]
    /\ closureOut = OutOk(<<-1>>)
    /\ ending = EndReturn(<<-1>>)

\* C9: in the static and in the dynamic func_wrapper, a panic of the closure
\* is handed to resume_panic exactly once, with its payload: the wrapper does
\* not return, raise_user_trap is not called, and resume_panic is not called
\* before the match nor a second time.
C9_PanicResumedOnce ==
    ((InDynWrapper \/ InStaticWrapper) /\ closureOut.tag = "Panic") =>
        /\ raiseCalls = 0
        /\ pc \in {"dyn_closure_returned", "dyn_caught", "static_caught", "wrapper_ended"}
        /\ values_vec = entry_vec
        /\ IF pc = "wrapper_ended"
           THEN ending = EndResumePanic(closureOut.panic) /\ resumeCalls = 1
           ELSE ending = NoOutcome /\ resumeCalls = 0

\* A dynamic function with environment whose closure panicked.
C9_Witness ==
    /\ InDynWrapper
    /\ fn.definition.has_env
    /\ pc = "wrapper_ended"
    /\ closureOut = OutPanic("panic_b")
    /\ resumeCalls = 1

\* A static function whose closure panicked.
C9_WitnessStatic ==
    /\ InStaticWrapper
    /\ pc = "wrapper_ended"
    /\ closureOut = OutPanic("panic_a")
    /\ resumeCalls = 1

\* A host function built with a boxed context (new_env, new_dynamic,
\* new_dynamic_env).
OwnsContext == fn.definition.tag = "Host" /\ fn.exported.vmctx /= "null"

\* C10: the boxed context of a host function built with a non-null vmctx is
\* live and unreleased while a handle exists, and released exactly once when
\* the last handle has been dropped.
C10_ContextReleasedOnce ==
    OwnsContext =>
        /\ handles > 0 => (ctx.state = "live" /\ releases = 0)
        /\ handles = 0 => (ctx.state = "freed" /\ releases = 1)

\* The invocations of the closure of a dynamic function with environment
\* that hold a mutable reference to the environment.
MutHolders == {i \in 1..Len(active) : ctx.what = "dynamic_env"}

\* C11: at no point do two invocations in progress of the closure of a
\* dynamic function with environment hold a mutable reference to the same
\* environment: a call made while an invocation holds it is turned down.
C11_ReentrancyDetected == Cardinality(MutHolders) <= 1

\* C12: for every integer host scalar type T and every value v of T, to_native
\* gives a value of T's native type with v's bits in its low bits, and
\* from_native of that value is v again: zero, negative values, MIN and MAX
\* included, and unsigned values that wrap to a negative native value.
C12_HostScalarRoundTrip ==
    (conv.op = "host_scalar" /\ conv.tys[1] \in IntHostTypes) =>
        /\ conv.stage >= 1 =>
              /\ conv.mid[1] \in NativeValues(NativeOf(conv.tys[1]))
              /\ (conv.mid[1] - conv.arg[1]) % Pow2(HostWidth(conv.tys[1])) = 0
        /\ conv.stage = 2 => conv.out = conv.arg

\* u32::MAX goes to the native -1 and comes back.
C12_Witness ==
    /\ conv.op = "host_scalar"
    /\ conv.stage = 2
    /\ conv.tys = <<"u32">>
    /\ conv.arg = <<Pow2(W32) - 1>>
    /\ conv.mid = <<-1>>
    /\ conv.out = conv.arg

\* i8::MIN goes through i32 and comes back.
C12_WitnessMin ==
    /\ conv.op = "host_scalar"
    /\ conv.stage = 2
    /\ conv.tys = <<"i8">>
    /\ conv.arg = <<HostMin("i8")>>
    /\ conv.arg[1] < 0
    /\ conv.out = conv.arg

\* C13, as stated: for every host scalar type T and every value n of T's native
\* type, to_native(from_native(n)) is n.
C13_NativeRoundTrip ==
    (conv.op = "native_scalar" /\ conv.stage = 2) => conv.out = conv.arg

\* The native value n is a value of the host scalar type t.
InHostRange(t, n) == HostMin(t) <= n /\ n <= HostMax(t)

\* C13, amended: for a host scalar type as wide as its native type (i32, u32,
\* i64, u64, f32, f64) to_native(from_native(n)) is n for every n; for an 8- or
\* 16-bit type it is n exactly when n is a value of T, and any other n comes
\* back as the sign- or zero-extension of its low 8 or 16 bits.
C13_NativeRoundTripInRange ==
    (conv.op = "native_scalar" /\ conv.stage = 2) =>
        LET t == conv.tys[1]
            n == conv.arg[1]
        IN  /\ HostWidth(t) = Width(NativeOf(t)) => conv.out[1] = n
            /\ HostWidth(t) < Width(NativeOf(t)) => (conv.out[1] = n <=> InHostRange(t, n))
            /\ InHostRange(t, conv.out[1]) \/ HostWidth(t) = Width(NativeOf(t))
            /\ (conv.out[1] - n) % Pow2(HostWidth(t)) = 0

\* The least i32 above i16::MAX comes back as i16::MIN.
C13_Witness ==
    /\ conv.op = "native_scalar"
    /\ conv.stage = 2
    /\ conv.tys = <<"i16">>
    /\ conv.arg = <<HostMax("i16") + 1>>
    /\ conv.out = <<HostMin("i16")>>

\* A negative i32 comes back from u32 unchanged.
C13_WitnessWide ==
    /\ conv.op = "native_scalar"
    /\ conv.stage = 2
    /\ conv.tys = <<"u32">>
    /\ conv.arg = <<-1>>
    /\ conv.mid = <<Pow2(W32) - 1>>
    /\ conv.out = <<-1>>

\* C14: for every tuple t of integer scalars, of any arity, into_array gives an
\* array of as many slots as t has elements, slot i holding the bits of
\* element i, and from_array of that array is t.
C14_TupleRoundTrip ==
    conv.op = "tuple" =>
        /\ conv.stage >= 1 =>
              /\ Len(conv.mid) = Len(conv.arg)
              /\ \A i \in 1..Len(conv.arg) :
                    /\ conv.mid[i] \in 0..(Pow2(W128) - 1)
                    /\ conv.mid[i] % Pow2(HostWidth(conv.tys[i]))
                          = ToBits(conv.arg[i], HostWidth(conv.tys[i]))
        /\ conv.stage = 2 => conv.out = conv.arg

\* Two elements of different types and values.
C14_Witness ==
    /\ conv.op = "tuple"
    /\ conv.stage = 2
    /\ conv.tys = <<"i16", "u64">>
    /\ conv.arg = <<HostMax("i16"), HostMax("u64")>>
    /\ conv.mid = <<1, Pow2(W128) - 1>>
    /\ conv.out = conv.arg

\* The empty tuple.
C14_WitnessEmpty ==
    /\ conv.op = "tuple"
    /\ conv.stage = 2
    /\ conv.tys = <<>>
    /\ conv.mid = <<>>
    /\ conv.out = <<>>

\* The value kind the signature of a static function shows for a host type.
KindShown(t) ==
    CASE t \in {"i8", "u8", "i16", "u16", "i32", "u32"} -> "I32"
      [] t \in {"i64", "u64"} -> "I64"
      [] t = "f32" -> "F32"
      [] t = "f64" -> "F64"

\* C15: ty() of a static function of argument types Args and result types Rets
\* has one parameter kind per element of Args and one result kind per element
\* of Rets, in their order: I32 for i8, u8, i16, u16, i32, u32; I64 for i64,
\* u64; F32 for f32; F64 for f64.
C15_TyFromTupleTypes ==
    (conv.op = "types" /\ conv.stage = 1) =>
        /\ Len(conv.sig.params) = Len(conv.tys)
        /\ \A i \in 1..Len(conv.tys) : conv.sig.params[i] = KindShown(conv.tys[i])
        /\ Len(conv.sig.results) = Len(conv.rets)
        /\ \A i \in 1..Len(conv.rets) : conv.sig.results[i] = KindShown(conv.rets[i])

\* Arguments (i32, i64) and result f32.
C15_Witness ==
    /\ conv.op = "types"
    /\ conv.stage = 1
    /\ conv.tys = <<"i32", "i64">>
    /\ conv.rets = <<"f32">>
    /\ conv.sig = FunctionType(<<"I32", "I64">>, <<"F32">>)

\* The place of an event among the steps of a call: a validation check, an
\* argument slot write, the trampoline, a result slot read (0: none of them).
Phase(e) ==
    CASE e.ev \in {"check_param_count", "check_result_count", "check_kind"} -> 1
      [] e.ev = "write" -> 2
      [] e.ev = "trampoline" -> 3
      [] e.ev = "read" -> 4
      [] OTHER -> 0

\* A call on a guest-defined function has returned Ok.
GuestCallOk == InGuestCall /\ pc = "returned" /\ ret.tag = "Ok"

\* C16, as stated: in a successful call on a guest-defined function all
\* validation checks come first, then every argument slot write, then the one
\* trampoline invocation, then every result slot read.
C16_ChecksThenWrites ==
    GuestCallOk =>
        /\ Cardinality({k \in 1..Len(events) : Phase(events[k]) = 3}) = 1
        /\ \A a, b \in 1..Len(events) :
              (a < b /\ Phase(events[a]) > 0 /\ Phase(events[b]) > 0) =>
                  Phase(events[a]) <= Phase(events[b])

\* What a successful call of np arguments and nr results does, in order.
ExpectedEvents(np, nr) ==
    <<Ev("check_param_count", 0), Ev("check_result_count", 0), Ev("alloc", 0)>>
    \o [k \in 1..(2 * np) |-> IF k % 2 = 1 THEN Ev("check_kind", (k + 1) \div 2)
                                           ELSE Ev("write", k \div 2)]
    \o <<Ev("trampoline", 0)>>
    \o [k \in 1..nr |-> Ev("read", k)]

IsPrefix(a, b) == Len(a) <= Len(b) /\ a = SubSeq(b, 1, Len(a))

\* C16, amended: a call on a guest-defined function that has not failed does,
\* in this order and nothing else: the two count checks; for each argument in
\* turn its kind check and then its slot write; the one trampoline
\* invocation; every result slot read in turn. No argument is checked or
\* written once the trampoline has started and no result is read before it.
C16_OrderedAroundTrampoline ==
    (InGuestCall /\ ret.tag /= "Err") =>
        /\ IsPrefix(events, ExpectedEvents(Len(params), Len(Ty(fn).results)))
        /\ GuestCallOk => events = ExpectedEvents(Len(params), Len(Ty(fn).results))
        /\ \A a, b \in 1..Len(events) :
              (a < b /\ Phase(events[a]) >= 3) => Phase(events[b]) = 4
        /\ trampolineCalls = Cardinality({k \in 1..Len(events) : Phase(events[k]) = 3})

\* Two arguments and one result: the second kind check follows the first write.
C16_Witness ==
    /\ GuestCallOk
    /\ Len(params) = 2
    /\ Len(ret.vals) = 1
    /\ Len(events) = 9
    /\ events[5] = Ev("write", 1)
    /\ events[6] = Ev("check_kind", 2)
    /\ events[8] = Ev("trampoline", 0)
    /\ events[9] = Ev("read", 1)

\* The static host function add(a: i32, b: i32) -> i32, built by new.
IsHostAdd ==
    /\ built.path = "new"
    /\ wrapper = [Args |-> <<"i32", "i32">>, Rets |-> <<"i32">>]

\* C17: call on the static host function add(a: i32, b: i32) -> i32 with the
\* values (a, b) is carried out and returns Ok with the one value a + b.
C17_HostAddReturnsSum ==
    (IsHostAdd /\ pc \notin {"nofn", "idle", "exposed"}
               /\ Len(params) = 2 /\ \A i \in 1..2 : TyOf(params[i]) = "I32") =>
        /\ pc /= "unimplemented"
        /\ pc = "returned" =>
              ret = Ok(<<MkVal("I32", FromBits(ToBits(params[1].v + params[2].v, W32), W32))>>)

\* A call on a host-defined function has been made.
HostCalled == fn.definition.tag = "Host" /\ pc \notin {"nofn", "idle", "exposed"}

C18_WitnessStatic ==
    /\ HostCalled
    /\ IsHostAdd
    /\ params = <<MkVal("I32", 1), MkVal("I32", 1)>>
    /\ pc = "unimplemented"

\* The signature a static function of types Args and Rets is to show.
DerivedSignature(Args, Rets) ==
    FunctionType([i \in 1..Len(Args) |-> KindShown(Args[i])],
                 [i \in 1..Len(Rets) |-> KindShown(Rets[i])])

\* C19: whatever has been done to a function since it was built (clone, drop,
\* checked_anyfunc, to_export), it has the shape of its constructor: new, a
\* host definition without environment, a null vmctx, kind Static; new_env, a
\* host definition with environment, a vmctx that is not null, kind Static;
\* new_dynamic and new_dynamic_env, a host definition without and with
\* environment, a vmctx that is not null, kind Dynamic; from_export, a guest
\* definition holding a trampoline, not owned by the store. A host function
\* is owned by the store, and ty() is the signature given to the constructor
\* or derived from the closure's types.
C19_ShapeFixed ==
    built.path /= "none" =>
        /\ Ty(fn) = built.signature
        /\ built.path \in {"new", "new_env"} =>
              /\ fn.definition.tag = "Host"
              /\ fn.definition.has_env = (built.path = "new_env")
              /\ (fn.exported.vmctx = "null") = (built.path = "new")
              /\ fn.exported.kind = "Static"
              /\ fn.owned_by_store
              /\ Ty(fn) = DerivedSignature(wrapper.Args, wrapper.Rets)
        /\ built.path \in {"new_dynamic", "new_dynamic_env"} =>
              /\ fn.definition.tag = "Host"
              /\ fn.definition.has_env = (built.path = "new_dynamic_env")
              /\ fn.exported.vmctx /= "null"
              /\ fn.exported.kind = "Dynamic"
              /\ fn.owned_by_store
        /\ built.path = "from_export" =>
              /\ fn.definition.tag = "Wasm"
              /\ fn.definition.trampoline /= "none"
              /\ ~fn.owned_by_store

\* A function built by new_env, cloned, then exported.
C19_Witness ==
    /\ built = Built("new_env", FunctionType(<<"I32", "I64">>, <<"F32">>))
    /\ wrapper = [Args |-> <<"u8", "i64">>, Rets |-> <<"f32">>]
    /\ handles = 2
    /\ pc = "exposed"
    /\ exposed.tag = "export"
    /\ fn.definition.has_env

\* A guest function after its last handle was dropped.
C19_WitnessGuest ==
    /\ built.path = "from_export"
    /\ pc = "dropped"
    /\ fn.definition = WasmDef

\* C20: the entry address of a dynamic function is null from its construction
\* on, whatever is done with the function (call, checked_anyfunc, to_export),
\* while its boxed context records the address of func_wrapper; so
\* checked_anyfunc and to_export show a null entry address.
C20_DynamicPendingLink ==
    (fn.definition.tag = "Host" /\ fn.exported.kind = "Dynamic") =>
        /\ fn.exported.address = "null"
        /\ fn.exported.vmctx = "box"
        /\ ctx.state = "live"
        /\ ctx.address = "func_wrapper"
        /\ ctx.function_type = Ty(fn)
        /\ (pc = "exposed" /\ exposed.tag = "anyfunc") => exposed.func_ptr = "null"
        /\ (pc = "exposed" /\ exposed.tag = "export") => exposed.function.address = "null"

\* checked_anyfunc on a dynamic function with environment.
C20_Witness ==
    /\ built.path = "new_dynamic_env"
    /\ pc = "exposed"
    /\ exposed.tag = "anyfunc"
    /\ exposed.func_ptr = "null"
    /\ exposed.vmctx = "box"
    /\ ctx.address = "func_wrapper"

\* call on a dynamic function without environment.
C20_WitnessCall ==
    /\ built.path = "new_dynamic"
    /\ pc = "unimplemented"
    /\ fn.exported.address = "null"

\* C21: in a call on a guest-defined function the result buffer has exactly
\* result_arity entries, so the result-count check of call_wasm does not fail:
\* an Err returned before the trampoline was entered is the parameter mismatch
\* and comes from an argument list of another length or with an argument of
\* another kind than its parameter, and an Ok holds exactly result_arity
\* values.
C21_ResultCountNeverFails ==
    InGuestCall =>
        /\ Len(results) = ResultArity(fn)
        /\ ret /= Err(RuntimeErrorNew("results_mismatch"))
        /\ (pc = "returned" /\ ret.tag = "Err" /\ trampolineCalls = 0) =>
              /\ ret = TypeMismatchErr
              /\ Len(params) /= ParamArity(fn) \/ MismatchedPositions /= {}
        /\ (pc = "returned" /\ ret.tag = "Ok") => Len(ret.vals) = ResultArity(fn)

\* More results than arguments, and a call turned down for the kind of its
\* one argument after both count checks.
C21_Witness ==
    /\ InGuestCall
    /\ pc = "returned"
    /\ ParamArity(fn) = 1
    /\ ResultArity(fn) = 1
    /\ Len(results) = 1
    /\ "check_result_count" \in EventNames
    /\ events[Len(events)] = Ev("check_failed", 1)
    /\ ret = TypeMismatchErr

\* No argument and one result: Ok with one value.
C21_WitnessOk ==
    /\ GuestCallOk
    /\ ParamArity(fn) = 0
    /\ ResultArity(fn) = 1
    /\ Len(ret.vals) = 1
    /\ "check_result_count" \in EventNames

\* The dynamic func_wrapper ended without returning: by raise_user_trap or by
\* resume_panic.
DynEndedAbruptly ==
    /\ InDynWrapper
    /\ pc = "wrapper_ended"
    /\ ending.tag \in {"raise_user_trap", "resume_panic"}

\* C22: the dynamic func_wrapper writes a result slot only when the closure
\* returned values of the declared kinds and number; when it ends by
\* raise_user_trap (the closure returned an error, or values of other kinds or
\* another number) or by resume_panic, no slot was written and every slot of
\* the frame holds what it held when the wrapper was entered.
C22_FrameKeptOnTrap ==
    InDynWrapper =>
        /\ Len(values_vec) = Len(entry_vec)
        /\ (values_vec /= entry_vec \/ "write" \in EventNames \/ pc = "dyn_store_results") =>
              (closureOut.tag = "Ok" /\ ~MisshapedReturn)
        /\ (closureOut.tag \in {"Err", "Panic"} \/ MisshapedReturn) =>
              /\ values_vec = entry_vec
              /\ pc = "wrapper_ended" => DynEndedAbruptly
        /\ DynEndedAbruptly =>
              /\ \A i \in 1..Len(entry_vec) : values_vec[i] = entry_vec[i]
              /\ "write" \notin EventNames

\* The closure returned an error; the two slots of the frame are as entered.
C22_Witness ==
    /\ DynEndedAbruptly
    /\ closureOut.tag = "Err"
    /\ ending = EndRaiseUserTrap(closureOut.err)
    /\ Len(entry_vec) = 2
    /\ entry_vec[1] /= entry_vec[2]
    /\ values_vec = entry_vec

\* The closure returned a value of another kind than declared.
C22_WitnessKind ==
    /\ DynEndedAbruptly
    /\ ctx.function_type = FunctionType(<<"I32", "I32">>, <<"I32">>)
    /\ closureOut = OutOk(<<MkVal("I64", 1)>>)
    /\ values_vec = entry_vec

\* The closure panicked.
C22_WitnessPanic ==
    /\ DynEndedAbruptly
    /\ ending.tag = "resume_panic"
    /\ Len(entry_vec) = 1
    /\ values_vec = entry_vec

====
